---- MODULE Spec2Model ----
(***************************************************************************)
(* Health Tracker: the Garmin sync path (Dashboard, Garmin Data page, the  *)
(* scheduled job, the daily-metric store), the log resources' CRUD API,    *)
(* the daily summary, the food-database migration and the Settings form.   *)
(***************************************************************************)
EXTENDS Integers, Sequences, FiniteSets, TLC

(***************************************************************************)
(* Bounds of the model.                                                    *)
(***************************************************************************)
MaxDate == 2
MaxVal == 2
MaxClicks == 2
MaxJobs == 1
MaxCalls == 3
MaxEntries == 2
MaxFailures == 1
MaxRows == 2
MaxSaves == 1
MaxMajor == 4
MaxMinor == 11
MaxPatch == 1
MaxOpens == 3
MaxPending == 2
MaxFoods == 1
MaxDay == 5
MaxOffset == 2

\* client.js:42, `date = null`: the request names no date.
NoDate == 0

Dates == 1..MaxDate
Today == MaxDate
\* What Garmin Connect returns for a day, as the aggregate the sync computes.
Vals == 1..MaxVal

VARIABLES
    page,           \* the route that is mounted (App.jsx)
    syncing,        \* Dashboard: useState(false)
    rqV5,           \* whether a mutation result has the field isPending
    syncDate,       \* GarminData: useState(today)
    syncForce,      \* GarminData: useState(false)
    syncMessage,    \* GarminData: useState(null)
    msgTimers,      \* GarminData: pending setTimeout(() => setSyncMessage(null))
    inflight,       \* POST /garmin/sync requests and the handlers awaiting them
    clicks,         \* clicks on "Sync Garmin" / "Sync Data" that ran a handler
    sent,           \* POST /garmin/sync requests sent by the UI
    failed,         \* UI sync requests that ended in an error
    reported,       \* failures the user was shown (alert, or error message)
    jobRunning,     \* the scheduled job is running
    jobs,           \* scheduled runs started
    garminStore,    \* server: the garmin_data table, a set of rows [date, val]
    pending,        \* server: sync requests received and not yet answered
    calls,          \* server: syncs asked for so far
    lastSync,       \* server: the last sync it completed
    resource,       \* the log resource of the requests below
    logs,           \* server: that resource's table, a set of entries
    lastOp,         \* server: the last create, update or delete it served
    mutFailed,      \* create/update/delete requests of the log pages that failed
    mutAlerts,      \* alert dialogs raised for them
    dayLogs,        \* server: the logged entries the summaries are built from
    summary,        \* the last daily summary the server answered
    icu,            \* SQLite: built with the ICU extension
    food_entries,   \* SQLite: the food_entries table, a bag of rows
    food_database,  \* SQLite: the food_database table
    migrated,       \* the migration script has run
    formData,       \* Settings: the form's fields
    userFetch,      \* Settings: the ['user'] query is fetching
    updates,        \* Settings: update requests in flight, a bag
    userRow,        \* server: the user's stored profile
    lastSave,       \* the last update request that was answered
    pythonVersion,  \* host: what python3 --version prints, as its numbers
    host,           \* host: which commands and environments are there
    fs,             \* the repository's directory: what exists in it
    setup,          \* setup.sh: where it is, and how it exited
    backend,        \* run_backend.sh: what it did
    report,         \* check_system.sh: what it printed
    logPage,        \* the log page whose component state follows
    activeTab,      \* Medications: 'single' or 'scheduled'
    showForm,       \* the page's form is rendered
    editingEntry,   \* editingEntry / editingSeizure / editingEvent
    selectedFoodId, \* FoodLog: the food database item the form came from
    showFoodDatabase, \* FoodLog: the quick-add panel is open
    entryForm,      \* FoodLog: formData.save_to_database
    opened,         \* history: how the form was opened since it was hidden
    saves,          \* create and update requests in flight
    lastRequest,    \* the last create or update request a submit issued
    calendarPage,   \* the page whose date navigation follows
    timezone,       \* the browser's offset from UTC, in hours
    selectedDate,   \* the day shown, as a day number ('yyyy-MM-dd')
    navTrail        \* history: the last clicks on the day buttons

\* The UI's side of a sync, and the scheduler.
uiVars == <<page, syncing, rqV5, syncDate, syncForce, syncMessage, msgTimers,
            inflight, clicks, sent, failed, reported, jobRunning, jobs>>

\* The server's side of a sync.
storeVars == <<garminStore, pending, calls, lastSync>>

\* The log resources: the REST API and the pages' mutations.
crudVars == <<resource, logs, lastOp, mutFailed, mutAlerts>>

\* The daily summary.
summaryVars == <<dayLogs, summary>>

\* The food database migration.
migrationVars == <<icu, food_entries, food_database, migrated>>

\* The Settings page and the user's profile.
settingsVars == <<formData, userFetch, updates, userRow, lastSave>>

\* The shell scripts and the machine they run on.
scriptVars == <<pythonVersion, host, fs, setup, backend, report>>

\* The log pages' forms.
formVars == <<logPage, activeTab, showForm, editingEntry, selectedFoodId,
              showFoodDatabase, entryForm, opened, saves, lastRequest>>

\* The date navigation of the Food Log and Medications pages.
dateVars == <<calendarPage, timezone, selectedDate, navTrail>>

\* The state added after settingsVars.
extraVars == <<scriptVars, formVars, dateVars>>

vars == <<uiVars, storeVars, crudVars, summaryVars, migrationVars, settingsVars,
          extraVars>>

NotUI == <<storeVars, crudVars, summaryVars, migrationVars, settingsVars,
    extraVars>>

NotStore == <<uiVars, crudVars, summaryVars, migrationVars, settingsVars,
    extraVars>>

NotCrud == <<uiVars, storeVars, summaryVars, migrationVars, settingsVars,
    extraVars>>

NotSummary == <<uiVars, storeVars, crudVars, migrationVars, settingsVars,
    extraVars>>

NotMigration == <<uiVars, storeVars, crudVars, summaryVars, settingsVars,
    extraVars>>

NotSettings == <<page, syncing, syncDate, syncForce, syncMessage, msgTimers,
                 inflight, clicks, sent, failed, reported, jobRunning, jobs,
                 storeVars, crudVars, summaryVars, migrationVars, extraVars>>

NotScripts == <<uiVars, storeVars, crudVars, summaryVars, migrationVars,
                settingsVars, formVars, dateVars>>

NotForms == <<uiVars, storeVars, crudVars, summaryVars, migrationVars,
              settingsVars, scriptVars, dateVars>>

NotDates == <<uiVars, storeVars, crudVars, summaryVars, migrationVars,
              settingsVars, scriptVars, formVars>>

(***************************************************************************)
(* Bags of requests.                                                       *)
(***************************************************************************)
\* A bag is a function from the requests it holds to their numbers.
EmptyBag == [k \in {} |-> 0]

Holds(bag, k) == k \in DOMAIN bag

Add(bag, k) ==
    [x \in DOMAIN bag \cup {k} |-> IF x = k
                                   THEN (IF Holds(bag, k) THEN bag[k] + 1 ELSE 1)
                                   ELSE bag[x]]

Remove(bag, k) ==
    [x \in (IF bag[k] = 1 THEN DOMAIN bag \ {k} ELSE DOMAIN bag) |->
        IF x = k THEN bag[k] - 1 ELSE bag[x]]

Count(bag, S) ==
    LET RECURSIVE Sum(_)
        Sum(T) == IF T = {} THEN 0
                  ELSE LET k == CHOOSE x \in T : TRUE IN bag[k] + Sum(T \ {k})
    IN Sum(DOMAIN bag \cap S)

(***************************************************************************)
(* The UI: routes, the Dashboard and the Garmin Data page.                 *)
(***************************************************************************)
Pages == {"dashboard", "garmin", "other"}

ReqKinds == [src : {"dashboard", "garmin"}, date : Dates \cup {NoDate},
             force : BOOLEAN, live : BOOLEAN, phase : {"sync", "refetch"}]

\* Unmounting page p: its handlers keep running, their setState calls no
\* longer reach a component.
Orphan(bag, p) ==
    LET Dead(k) == IF k.src = p THEN [k EXCEPT !.live = FALSE] ELSE k IN
    [x \in {Dead(k) : k \in DOMAIN bag} |->
        Count(bag, {k \in ReqKinds : Dead(k) = x})]

\* Mutant: the Dashboard button is never disabled.
DashboardSyncNeverDisabled == FALSE

\* Dashboard: <button onClick={handleSync} disabled={syncing}>
DashboardSyncDisabled == syncing

\* GarminData: <button onClick={handleManualSync} disabled={syncMutation.isPending}>
GarminSyncDisabled ==
    /\ rqV5
    /\ \E k \in DOMAIN inflight : k.src = "garmin" /\ k.live

\* App.jsx: one page is mounted per route; a route change unmounts it and
\* mounts the next one with its initial state.
Navigate(p) ==
    /\ p # page
    /\ page' = p
    /\ inflight' = Orphan(inflight, page)
    /\ syncing' = FALSE
    /\ syncDate' = Today
    /\ syncForce' = FALSE
    /\ syncMessage' = "null"
    /\ msgTimers' = 0
    /\ UNCHANGED <<rqV5, clicks, sent, failed, reported, jobRunning, jobs>>
    /\ UNCHANGED NotUI

\* Dashboard.handleSync, up to `await syncGarminData()`.
handleSync ==
    /\ page = "dashboard"
    /\ ~DashboardSyncDisabled
    /\ clicks < MaxClicks
    /\ syncing' = TRUE
    /\ clicks' = clicks + 1
    /\ sent' = sent + 1
    /\ inflight' = Add(inflight, [src |-> "dashboard", date |-> NoDate,
                                  force |-> FALSE, live |-> TRUE, phase |-> "sync"])
    /\ UNCHANGED <<page, rqV5, syncDate, syncForce, syncMessage, msgTimers,
                   failed, reported, jobRunning, jobs>>
    /\ UNCHANGED NotUI

\* GarminData: the date input and the force-sync checkbox.
SetSyncDate(d) ==
    /\ page = "garmin"
    /\ d # syncDate
    /\ syncDate' = d
    /\ UNCHANGED <<page, syncing, rqV5, syncForce, syncMessage, msgTimers,
                   inflight, clicks, sent, failed, reported, jobRunning, jobs>>
    /\ UNCHANGED NotUI

SetSyncForce ==
    /\ page = "garmin"
    /\ syncForce' = ~syncForce
    /\ UNCHANGED <<page, syncing, rqV5, syncDate, syncMessage, msgTimers,
                   inflight, clicks, sent, failed, reported, jobRunning, jobs>>
    /\ UNCHANGED NotUI

\* GarminData.handleManualSync.
handleManualSync ==
    /\ page = "garmin"
    /\ ~GarminSyncDisabled
    /\ clicks < MaxClicks
    /\ syncMessage' = "null"
    /\ clicks' = clicks + 1
    /\ sent' = sent + 1
    /\ inflight' = Add(inflight, [src |-> "garmin", date |-> syncDate,
                                  force |-> syncForce, live |-> TRUE, phase |-> "sync"])
    /\ UNCHANGED <<page, syncing, rqV5, syncDate, syncForce, msgTimers,
                   failed, reported, jobRunning, jobs>>
    /\ UNCHANGED NotUI

\* The response is a 2xx.  Dashboard.handleSync goes on to `await refetch()`;
\* GarminData's syncMutation.onSuccess shows the message and starts the timer.
\* (What the server did to answer is ServeSync.)
SyncResolves(k) ==
    /\ Holds(inflight, k)
    /\ k.phase = "sync"
    /\ IF k.src = "dashboard"
       THEN /\ inflight' = Add(Remove(inflight, k), [k EXCEPT !.phase = "refetch"])
            /\ UNCHANGED <<syncMessage, msgTimers>>
       ELSE /\ inflight' = Remove(inflight, k)
            /\ syncMessage' = IF k.live THEN "success" ELSE syncMessage
            /\ msgTimers' = IF k.live THEN msgTimers + 1 ELSE msgTimers
    /\ UNCHANGED <<page, syncing, rqV5, syncDate, syncForce, clicks, sent, failed,
                   reported, jobRunning, jobs>>
    /\ UNCHANGED NotUI

\* The request fails (bad credentials, network error).
\* Dashboard.handleSync: catch { alert(...) } finally { setSyncing(false) }.
\* GarminData: syncMutation.onError sets the error message and the timer.
SyncRejects(k) ==
    /\ Holds(inflight, k)
    /\ k.phase = "sync"
    /\ inflight' = Remove(inflight, k)
    /\ failed' = failed + 1
    /\ IF k.src = "dashboard"
       THEN /\ reported' = reported + 1
            /\ syncing' = IF k.live THEN FALSE ELSE syncing
            /\ UNCHANGED <<syncMessage, msgTimers>>
       ELSE /\ reported' = IF k.live THEN reported + 1 ELSE reported
            /\ syncMessage' = IF k.live THEN "error" ELSE syncMessage
            /\ msgTimers' = IF k.live THEN msgTimers + 1 ELSE msgTimers
            /\ UNCHANGED syncing
    /\ UNCHANGED <<page, rqV5, syncDate, syncForce, clicks, sent, jobRunning, jobs>>
    /\ UNCHANGED NotUI

\* Dashboard.handleSync after `await refetch()`: finally { setSyncing(false) }.
RefetchDone(k) ==
    /\ Holds(inflight, k)
    /\ k.phase = "refetch"
    /\ inflight' = Remove(inflight, k)
    /\ syncing' = IF k.live THEN FALSE ELSE syncing
    /\ UNCHANGED <<page, rqV5, syncDate, syncForce, syncMessage, msgTimers,
                   clicks, sent, failed, reported, jobRunning, jobs>>
    /\ UNCHANGED NotUI

\* GarminData: setTimeout(() => setSyncMessage(null), 5000) fires.
MessageTimeout ==
    /\ page = "garmin"
    /\ msgTimers > 0
    /\ msgTimers' = msgTimers - 1
    /\ syncMessage' = "null"
    /\ UNCHANGED <<page, syncing, rqV5, syncDate, syncForce, inflight, clicks,
                   sent, failed, reported, jobRunning, jobs>>
    /\ UNCHANGED NotUI

\* The scheduler: one run per day, and no run starts while one is running.
JobStart ==
    /\ ~jobRunning
    /\ jobs < MaxJobs
    /\ jobRunning' = TRUE
    /\ jobs' = jobs + 1
    /\ UNCHANGED <<page, syncing, rqV5, syncDate, syncForce, syncMessage,
                   msgTimers, inflight, clicks, sent, failed, reported>>
    /\ UNCHANGED NotUI

JobEnd ==
    /\ jobRunning
    /\ jobRunning' = FALSE
    /\ UNCHANGED <<page, syncing, rqV5, syncDate, syncForce, syncMessage,
                   msgTimers, inflight, clicks, sent, failed, reported, jobs>>
    /\ UNCHANGED NotUI

\* Syncs in progress: the UI's requests the server has not answered, and
\* the scheduled run.
SyncsInProgress ==
    Count(inflight, {k \in ReqKinds : k.phase = "sync"})
        + (IF jobRunning THEN 1 ELSE 0)

UIInit ==
    /\ page = "dashboard"
    /\ syncing = FALSE
    /\ rqV5 \in BOOLEAN
    /\ syncDate = Today
    /\ syncForce = FALSE
    /\ syncMessage = "null"
    /\ msgTimers = 0
    /\ inflight = EmptyBag
    /\ clicks = 0
    /\ sent = 0
    /\ failed = 0
    /\ reported = 0
    /\ jobRunning = FALSE
    /\ jobs = 0

(***************************************************************************)
(* The server's side of a sync: the daily-metric store.                    *)
(***************************************************************************)
RowsFor(store, d) == {r \in store : r.date = d}

HasRow(store, d) == RowsFor(store, d) # {}

\* Mutant: the write is a plain INSERT.
UpsertInsertOnly(store, d, v) == store \cup {[date |-> d, val |-> v]}

\* "upserted on sync", "an upsert-by-date database write".
Upsert(store, d, v) == {r \in store : r.date # d} \cup {[date |-> d, val |-> v]}

\* "Yesterday's data is synced (today's data may be incomplete)".
DefaultSyncDate == Today - 1

ResolveDate(d) == IF d = NoDate THEN DefaultSyncDate ELSE d

\* "skip if already present unless force=true, else write computed daily aggregate".
SyncSkips(store, d, force) == ~force /\ HasRow(store, d)

SyncApply(store, d, force, v) ==
    IF SyncSkips(store, d, force) THEN store ELSE Upsert(store, d, v)

\* Mutant: the request always forces.
syncGarminDataForced(date, force) == [date |-> date, force |-> TRUE]

\* client.js: syncGarminData = (date = null, force = false) =>
\*   apiClient.post('/garmin/sync', { date, force })
syncGarminData(date, force) == [date |-> date, force |-> force]

CallKinds == [date : Dates \cup {NoDate}, force : BOOLEAN]

\* The record of a completed sync: what was asked (the arguments of
\* syncGarminData, or the job's), what the server computed and did, and
\* whether it repeats the sync completed just before it.
Completed(store, force, body, v) ==
    LET d == ResolveDate(body.date) IN
    [tick |-> ~lastSync.tick,
     date |-> d,
     force |-> force,
     outcome |-> IF SyncSkips(store, d, body.force) THEN "skipped" ELSE "written",
     val |-> v,
     existed |-> HasRow(store, d),
     repeat |-> /\ lastSync.outcome # "none"
                /\ lastSync.date = d
                /\ ~lastSync.force
                /\ ~force]

\* Dashboard.handleSync calls syncGarminData(); GarminData's mutationFn calls
\* syncGarminData(date, force) with the page's date and checkbox.
CallSync(date, force) ==
    /\ calls < MaxCalls
    /\ calls' = calls + 1
    /\ pending' = Add(pending, [date |-> date, force |-> force])
    /\ UNCHANGED <<garminStore, lastSync>>
    /\ UNCHANGED NotStore

\* POST /garmin/sync is served: Garmin Connect returned v for the day.
ServeSync(k, v) ==
    /\ Holds(pending, k)
    /\ pending' = Remove(pending, k)
    /\ LET body == syncGarminData(k.date, k.force) IN
        /\ garminStore' = SyncApply(garminStore, ResolveDate(body.date), body.force, v)
        /\ lastSync' = Completed(garminStore, k.force, body, v)
    /\ UNCHANGED calls
    /\ UNCHANGED NotStore

\* The sync fails (bad credentials, network error): nothing is written.
ServeSyncFails(k) ==
    /\ Holds(pending, k)
    /\ pending' = Remove(pending, k)
    /\ UNCHANGED <<garminStore, calls, lastSync>>
    /\ UNCHANGED NotStore

\* The scheduled run: yesterday's data, not forced.
JobSync(v) ==
    /\ calls < MaxCalls
    /\ calls' = calls + 1
    /\ garminStore' = SyncApply(garminStore, DefaultSyncDate, FALSE, v)
    /\ lastSync' = Completed(garminStore, FALSE, [date |-> NoDate, force |-> FALSE], v)
    /\ UNCHANGED pending
    /\ UNCHANGED NotStore

SyncIdle ==
    /\ pending = EmptyBag
    /\ calls = 0
    /\ lastSync = [tick |-> FALSE, date |-> NoDate, force |-> FALSE,
                   outcome |-> "none", val |-> NoDate, existed |-> FALSE,
                   repeat |-> FALSE]

StoreInit == garminStore = {} /\ SyncIdle

(***************************************************************************)
(* The log resources: food, medications, medication schedules, sickness,   *)
(* seizures.  client.js builds the requests; the server keeps one table    *)
(* per resource, keyed by a numeric id.                                    *)
(***************************************************************************)
RangeResources == {"food", "medications", "sickness", "seizures"}

Resources == RangeResources \cup {"schedules"}

\* What an entry's other fields (name, dosage, notes, ...) hold, as one value.
Payloads == {"a", "b"}

\* Mutant: the bounds of the range are passed the wrong way round.
getEntriesSwapped(startDate, endDate) ==
    [start_date |-> endDate, end_date |-> startDate]

\* client.js: getFoodEntries, getMedications, getSicknessEntries, getSeizures:
\*   apiClient.get('/<resource>/', { params: { start_date, end_date } })
getEntries(startDate, endDate) ==
    [start_date |-> startDate, end_date |-> endDate]

\* client.js: getMedicationSchedules = (activeOnly = true) =>
\*   apiClient.get('/medications/schedules', { params: { active_only: activeOnly } })
getMedicationSchedules(activeOnly) == [active_only |-> activeOnly]

\* GET /<resource>/?start_date=&end_date=
ListRange(table, params) ==
    {x \in table : params.start_date <= x.date /\ x.date <= params.end_date}

\* GET /medications/schedules?active_only=
ListSchedules(table, params) ==
    {x \in table : params.active_only => x.active}

\* GET /medications/schedules/{id}
GetById(table, id) == {x \in table : x.id = id}

\* The list the resource's page shows for date d: Seizures.jsx:29,
\* Medications.jsx:51 and :60, FoodLog.jsx:31.
PageList(res, table, d) ==
    IF res = "schedules"
    THEN ListSchedules(table, getMedicationSchedules(TRUE))
    ELSE ListRange(table, getEntries(d, d))

FreshId(table) ==
    IF table = {} THEN 1
    ELSE 1 + (CHOOSE n \in {x.id : x \in table} : \A x \in table : x.id <= n)

\* POST /<resource>/
CreateEntry(d, v, a) ==
    /\ FreshId(logs) <= MaxEntries
    /\ resource = "schedules" \/ a
    /\ LET x == [id |-> FreshId(logs), date |-> d, val |-> v, active |-> a] IN
        /\ logs' = logs \cup {x}
        /\ lastOp' = [op |-> "create", id |-> x.id, date |-> d, val |-> v,
                      active |-> a]
    /\ UNCHANGED <<resource, mutFailed, mutAlerts>>
    /\ UNCHANGED NotCrud

\* PUT /<resource>/{id}: the fields sent replace the entry's.  FoodLog's
\* update sends no date (d = NoDate), the other pages send every field.
UpdateEntry(id, d, v, a) ==
    /\ \E x \in logs : x.id = id
    /\ resource = "schedules" \/ a
    /\ d = NoDate => resource = "food"
    /\ LET old == CHOOSE x \in logs : x.id = id
           new == [id |-> id, date |-> IF d = NoDate THEN old.date ELSE d,
                   val |-> v, active |-> a]
       IN /\ logs' = (logs \ {old}) \cup {new}
          /\ lastOp' = [op |-> "update", id |-> id, date |-> new.date,
                        val |-> v, active |-> a]
    /\ UNCHANGED <<resource, mutFailed, mutAlerts>>
    /\ UNCHANGED NotCrud

\* DELETE /<resource>/{id}
DeleteEntry(id) ==
    /\ \E x \in logs : x.id = id
    /\ logs' = {x \in logs : x.id # id}
    /\ lastOp' = [op |-> "delete", id |-> id, date |-> NoDate, val |-> "",
                  active |-> FALSE]
    /\ UNCHANGED <<resource, mutFailed, mutAlerts>>
    /\ UNCHANGED NotCrud

\* The pages that log entries, and what their useMutation calls are given.
LogPages == {"FoodLog", "Medications", "Seizures", "Sickness", "HealthEvents"}

MutationOps == {"create", "update", "delete"}

\* Seizures.jsx:33-59, Sickness, HealthEvents.jsx:80-104, FoodLog.jsx:49-102,
\* Medications.jsx:66-114: useMutation({ mutationFn, onSuccess }).
MutationCallbacks(pg, op) == {"onSuccess"}

\* client.js:24-30: the response interceptor logs the error to the console
\* and rejects; it shows nothing.
InterceptorAlerts == FALSE

\* A create, update or delete request of a log page fails with a 4xx or 5xx.
MutationFails(pg, op) ==
    /\ mutFailed < MaxFailures
    /\ mutFailed' = mutFailed + 1
    /\ mutAlerts' = IF InterceptorAlerts \/ "onError" \in MutationCallbacks(pg, op)
                    THEN mutAlerts + 1 ELSE mutAlerts
    /\ UNCHANGED <<resource, logs, lastOp>>
    /\ UNCHANGED NotCrud

CrudIdle ==
    /\ resource = "food"
    /\ logs = {}
    /\ lastOp = [op |-> "none", id |-> NoDate, date |-> NoDate, val |-> "",
                 active |-> FALSE]
    /\ mutFailed = 0
    /\ mutAlerts = 0

(***************************************************************************)
(* The daily summary: a read-time aggregation of one day's logged entries  *)
(* and that day's Garmin row.  The Dashboard shows summary.food_entries,   *)
(* medication_count, total_water_ml, seizures, activities and garmin_data. *)
(***************************************************************************)
SummaryResources == {"food", "medications", "water", "seizures", "activities"}

\* Mutant: the entries of a table, whatever their date.
OfDayAnyDate(entries, res, D) == {x \in entries : x.res = res}

\* The entries of one table logged on date D.
OfDay(entries, res, D) == {x \in entries : x.res = res /\ x.date = D}

\* GET /dashboard/daily/{date}.  water stands for the entries total_water_ml
\* sums.
DailySummary(store, entries, D) ==
    [date             |-> D,
     food_entries     |-> OfDay(entries, "food", D),
     medication_count |-> Cardinality(OfDay(entries, "medications", D)),
     water            |-> OfDay(entries, "water", D),
     seizures         |-> OfDay(entries, "seizures", D),
     activities       |-> OfDay(entries, "activities", D),
     garmin_data      |-> RowsFor(store, D)]

NoSummary == [date |-> NoDate]

\* client.js: getDailySummary = (date) => apiClient.get(`/dashboard/daily/${date}`)
getDailySummary(date) ==
    /\ summary' = DailySummary(garminStore, dayLogs, date)
    /\ UNCHANGED dayLogs
    /\ UNCHANGED NotSummary

\* client.js: getTodaySummary = () => apiClient.get('/dashboard/today'),
\* the Dashboard's query.
getTodaySummary ==
    /\ summary' = DailySummary(garminStore, dayLogs, Today)
    /\ UNCHANGED dayLogs
    /\ UNCHANGED NotSummary

SummaryIdle == dayLogs = {} /\ summary = NoSummary

(***************************************************************************)
(* The food database migration, step 2: the catalog is filled from the     *)
(* food entries by one INSERT ... SELECT ... GROUP BY ... HAVING.          *)
(***************************************************************************)
\* A column's value is the set of what it holds: nothing when it is NULL.
NULL == {}

Value(v) == {v}

\* Descriptions are strings over these characters: the ASCII letter a and
\* the letter a with diaeresis (U+00E4, U+00C4), written a: and A:.  LowerCase
\* gives each character's lower-case form.
Chars == {"a", "A", "a:", "A:"}

LowerCase == [c \in Chars |-> CASE c = "A" -> "a" [] c = "A:" -> "a:" [] OTHER -> c]

IsASCII(c) == c \in {"a", "A"}

Descriptions ==
    {NULL} \cup {Value(d) : d \in {<<>>, <<"a">>, <<"A">>, <<"a:">>, <<"A:">>}}

\* The nutritional columns of an entry: one profile, and profiles that
\* differ from it in one column (protein_grams for the three FLOAT columns,
\* which the statement treats alike).
Profile == [calories |-> Value(1), protein_grams |-> Value(1),
            carbs_grams |-> Value(1), fat_grams |-> Value(1),
            is_drink |-> Value(FALSE), volume_ml |-> NULL]

Nutrition == {Profile,
              [Profile EXCEPT !.calories = NULL],
              [Profile EXCEPT !.protein_grams = Value(2)],
              [Profile EXCEPT !.is_drink = Value(TRUE)],
              [Profile EXCEPT !.volume_ml = Value(1)]}

Users == {1, 2}

FoodRows == [user_id : Users, description : Descriptions, n : Nutrition]

\* SQLite's lower(X): every ASCII character of X in lower case; the other
\* characters too when SQLite is built with the ICU extension.  NULL for NULL.
LOWER(X, withICU) ==
    {[i \in 1..Len(x) |->
        IF IsASCII(x[i]) \/ withICU THEN LowerCase[x[i]] ELSE x[i]] : x \in X}

\* GROUP BY user_id, LOWER(description), calories, protein_grams,
\* carbs_grams, fat_grams, is_drink, volume_ml.  NULLs group together.
GroupKey(r, withICU) ==
    [user_id |-> r.user_id, description |-> LOWER(r.description, withICU),
     n |-> r.n]

GroupOf(table, g, withICU) == {r \in DOMAIN table : GroupKey(r, withICU) = g}

GroupKeys(table, withICU) == {GroupKey(r, withICU) : r \in DOMAIN table}

\* HAVING description IS NOT NULL AND description != ''
Having(r) == r.description # NULL /\ r.description # Value(<<>>)

\* The row the SELECT yields for a group: the bare columns are those of one
\* row of the group, r; times_logged is COUNT(*).
Selected(table, r, withICU) ==
    [user_id |-> r.user_id, name |-> r.description, n |-> r.n,
     times_logged |-> Count(table, GroupOf(table, GroupKey(r, withICU), withICU))]

\* Step 2 of the migration.  SQLite takes a group's bare columns from a row
\* of its choice.
MigrateFoodEntries ==
    /\ ~migrated
    /\ migrated' = TRUE
    /\ \E pick \in [GroupKeys(food_entries, icu) -> DOMAIN food_entries] :
          /\ \A g \in DOMAIN pick : pick[g] \in GroupOf(food_entries, g, icu)
          /\ food_database' =
                {Selected(food_entries, pick[g], icu) :
                    g \in {k \in DOMAIN pick : Having(pick[k])}}
    /\ UNCHANGED <<icu, food_entries>>
    /\ UNCHANGED NotMigration

MigrationIdle ==
    /\ icu = FALSE
    /\ food_entries = EmptyBag
    /\ food_database = {}
    /\ migrated = FALSE

(***************************************************************************)
(* The Settings page: a form over email, garmin_username and               *)
(* garmin_password, filled from the ['user'] query and saved by            *)
(* updateMutation.                                                         *)
(***************************************************************************)
Emails == {"", "e"}

Usernames == {"", "u"}

\* What the password field can hold, and what the server can have stored.
Typed == {"", "p"}

Stored == {"", "s"} \cup Typed

\* Mutant: the request carries the form as it is.
SubmitDataKeepsBlank(form) == form

\* handleSubmit: const data = { ...formData };
\*   if (!data.garmin_password) { delete data.garmin_password }
SubmitData(form) ==
    IF form.garmin_password = ""
    THEN [f \in DOMAIN form \ {"garmin_password"} |-> form[f]]
    ELSE form

\* The submit button: disabled={updateMutation.isLoading}, which a mutation
\* has in react-query 4 only.
SaveDisabled == ~rqV5 /\ updates # EmptyBag

\* onChange of the three inputs.
TypeField(f, v) ==
    /\ formData[f] # v
    /\ formData' = [formData EXCEPT ![f] = v]
    /\ UNCHANGED <<rqV5, userFetch, updates, userRow, lastSave>>
    /\ UNCHANGED NotSettings

\* The ['user'] query's queryFn gets its answer: the form is filled from the
\* profile, the password field with ''.
QueryUserDone ==
    /\ userFetch
    /\ userFetch' = FALSE
    /\ formData' = [email |-> userRow.email,
                    garmin_username |-> userRow.garmin_username,
                    garmin_password |-> ""]
    /\ UNCHANGED <<rqV5, updates, userRow, lastSave>>
    /\ UNCHANGED NotSettings

\* handleSubmit: updateMutation.mutate(data).  form is the formData the
\* mutation's callbacks were created with.
handleSubmit ==
    /\ ~SaveDisabled
    /\ Count(updates, DOMAIN updates) < MaxSaves
    /\ updates' = Add(updates, [data |-> SubmitData(formData), form |-> formData])
    /\ UNCHANGED <<rqV5, formData, userFetch, userRow, lastSave>>
    /\ UNCHANGED NotSettings

\* PUT /users/me: the fields sent replace the stored ones; a field that is
\* not sent stays.
UpdateUser(row, data) ==
    [f \in DOMAIN row |-> IF f \in DOMAIN data THEN data[f] ELSE row[f]]

\* The update is applied and answered; onSuccess invalidates the queries,
\* alerts, and calls setFormData({ ...formData, garmin_password: '' }) with
\* the formData of the render its closure is from: the one that submitted, or
\* a later one.
SaveSucceeds(k) ==
    /\ Holds(updates, k)
    /\ updates' = Remove(updates, k)
    /\ userRow' = UpdateUser(userRow, k.data)
    /\ userFetch' = TRUE
    /\ \E base \in {k.form, formData} :
          formData' = [base EXCEPT !.garmin_password = ""]
    /\ lastSave' = [outcome |-> "saved",
                    omitted |-> "garmin_password" \notin DOMAIN k.data,
                    stored |-> userRow.garmin_password]
    /\ UNCHANGED rqV5
    /\ UNCHANGED NotSettings

\* The update fails; onError alerts.
SaveFails(k) ==
    /\ Holds(updates, k)
    /\ updates' = Remove(updates, k)
    /\ lastSave' = [outcome |-> "failed",
                    omitted |-> "garmin_password" \notin DOMAIN k.data,
                    stored |-> userRow.garmin_password]
    /\ UNCHANGED <<rqV5, formData, userFetch, userRow>>
    /\ UNCHANGED NotSettings

SettingsIdle ==
    /\ formData = [email |-> "", garmin_username |-> "", garmin_password |-> ""]
    /\ userFetch = FALSE
    /\ updates = EmptyBag
    /\ userRow = [email |-> "", garmin_username |-> "", garmin_password |-> ""]
    /\ lastSave = [outcome |-> "none", omitted |-> FALSE, stored |-> ""]

(***************************************************************************)
(* The shell scripts: setup.sh, run_backend.sh, check_system.sh.           *)
(***************************************************************************)
\* REQUIRED_VERSION="3.10", as its numbers.
RequiredMajor == 3

RequiredMinor == 10

REQUIRED_VERSION == <<RequiredMajor, RequiredMinor>>

\* What python3 --version prints after "Python ": major.minor.patch.
PythonVersions == (RequiredMajor..MaxMajor) \X (0..MaxMinor) \X (0..MaxPatch)

\* sort -V orders two versions by their numbers from the left; of a version
\* and a longer one that starts with it, the shorter comes first.
RECURSIVE VersionBefore(_, _)
VersionBefore(a, b) ==
    IF a = <<>> THEN b # <<>>
    ELSE IF b = <<>> THEN FALSE
    ELSE IF Head(a) # Head(b) THEN Head(a) < Head(b)
    ELSE VersionBefore(Tail(a), Tail(b))

\* printf '%s\n' a b | sort -V | head -n1
SortVHead(a, b) == IF VersionBefore(b, a) THEN b ELSE a

\* setup.sh: [ "$(printf ... | sort -V | head -n1)" != "$REQUIRED_VERSION" ]
\* is the incompatible branch.
SetupCompatible(v) == SortVHead(REQUIRED_VERSION, v) = REQUIRED_VERSION

\* check_system.sh: MAJOR=$(... cut -d. -f1), MINOR=$(... cut -d. -f2)
MAJOR(v) == v[1]

MINOR(v) == v[2]

\* check_system.sh: [ "$MAJOR" -ge 3 ] && [ "$MINOR" -ge 10 ]
CheckCompatible(v) == MAJOR(v) >= RequiredMajor /\ MINOR(v) >= RequiredMinor

\* check_system.sh, whole: the Python line and the last line.
CheckSystem ==
    /\ report.ran = FALSE
    /\ report' = [ran |-> TRUE,
                  python |-> IF CheckCompatible(pythonVersion)
                             THEN "compatible" ELSE "need 3.10+",
                  ready |-> host.uv /\ CheckCompatible(pythonVersion) /\ host.node]
    /\ UNCHANGED <<pythonVersion, host, fs, setup, backend>>
    /\ UNCHANGED NotScripts

\* setup.sh's Python check alone, on the same machine.
SetupPythonVerdict ==
    /\ setup.pc = "off"
    /\ setup.python = "unchecked"
    /\ setup' = [setup EXCEPT !.python = IF SetupCompatible(pythonVersion)
                                         THEN "compatible" ELSE "need 3.10+"]
    /\ UNCHANGED <<pythonVersion, host, fs, backend, report>>
    /\ UNCHANGED NotScripts

\* The environment `uv pip install` installs into, looked for from backend/:
\* an active or enclosing environment outside the repository, backend/.venv,
\* or the repository's .venv.  It creates none.
UvFindsEnvironment == host.env \/ fs.backendVenv \/ fs.venv

\* setup.sh exits with the given status (set -e: a failing command exits).
SetupExit(status) == [setup EXCEPT !.pc = "off", !.exit = status]

\* ./setup.sh is started, before the backend has been started.
StartSetup ==
    /\ setup.pc = "off"
    /\ backend = "none"
    /\ setup' = [setup EXCEPT !.pc = "uv", !.exit = "none", !.complete = FALSE]
    /\ UNCHANGED <<pythonVersion, host, fs, backend, report>>
    /\ UNCHANGED NotScripts

\* setup.sh:11-18.  Without uv: curl ... | sh, then exit 0.  The pipeline's
\* status is sh's, so a failed download still ends in exit 0.
SetupUv ==
    /\ setup.pc = "uv"
    /\ IF host.uv
       THEN setup' = [setup EXCEPT !.pc = "python"] /\ host' = host
       ELSE \/ host' = [host EXCEPT !.uvOnDisk = TRUE] /\ setup' = SetupExit("0")
            \/ host' = host /\ setup' = SetupExit("0")
            \/ host' = host /\ setup' = SetupExit("1")
    /\ UNCHANGED <<pythonVersion, fs, backend, report>>
    /\ UNCHANGED NotScripts

\* The shell is restarted: an installed uv is on the PATH.
RestartShell ==
    /\ setup.pc = "off"
    /\ host.uvOnDisk /\ ~host.uv
    /\ host' = [host EXCEPT !.uv = TRUE]
    /\ UNCHANGED <<pythonVersion, fs, setup, backend, report>>
    /\ UNCHANGED NotScripts

\* setup.sh:23-35: uv python install 3.10 when the version is too old.
SetupPython ==
    /\ setup.pc = "python"
    /\ IF SetupCompatible(pythonVersion)
       THEN setup' = [setup EXCEPT !.pc = "venvs", !.python = "compatible"]
       ELSE \/ setup' = [setup EXCEPT !.pc = "venvs", !.python = "need 3.10+"]
            \/ setup' = [SetupExit("1") EXCEPT !.python = "need 3.10+"]
    /\ UNCHANGED <<pythonVersion, host, fs, backend, report>>
    /\ UNCHANGED NotScripts

\* setup.sh:42-51: rm -rf .venv; rm -rf backend/.venv
SetupRemoveVenvs ==
    /\ setup.pc = "venvs"
    /\ fs' = [fs EXCEPT !.venv = FALSE, !.backendVenv = FALSE]
    /\ setup' = [setup EXCEPT !.pc = "pip"]
    /\ UNCHANGED <<pythonVersion, host, backend, report>>
    /\ UNCHANGED NotScripts

\* setup.sh:53-63: cd backend; uv pip install ... (three times).
SetupPipInstall ==
    /\ setup.pc = "pip"
    /\ \/ /\ UvFindsEnvironment
          /\ fs' = [fs EXCEPT !.pyDeps = TRUE]
          /\ setup' = [setup EXCEPT !.pc = "dotenv"]
       \/ fs' = fs /\ setup' = SetupExit("1")
    /\ UNCHANGED <<pythonVersion, host, backend, report>>
    /\ UNCHANGED NotScripts

\* setup.sh:65-72: cp .env.example .env unless .env exists.
SetupDotenv ==
    /\ setup.pc = "dotenv"
    /\ IF fs.dotenv \/ fs.dotenvExample
       THEN fs' = [fs EXCEPT !.dotenv = TRUE] /\ setup' = [setup EXCEPT !.pc = "npm"]
       ELSE fs' = fs /\ setup' = SetupExit("1")
    /\ UNCHANGED <<pythonVersion, host, backend, report>>
    /\ UNCHANGED NotScripts

\* setup.sh:76-95: exit 1 without npm; npm install; "Setup complete!".
SetupNpm ==
    /\ setup.pc = "npm"
    /\ IF host.npm
       THEN \/ /\ fs' = [fs EXCEPT !.nodeModules = TRUE]
               /\ setup' = [SetupExit("0") EXCEPT !.complete = TRUE]
            \/ fs' = fs /\ setup' = SetupExit("1")
       ELSE fs' = fs /\ setup' = SetupExit("1")
    /\ UNCHANGED <<pythonVersion, host, backend, report>>
    /\ UNCHANGED NotScripts

\* ./run_backend.sh, after setup.sh has run to its end (Quick Start, step 3).
RunBackend ==
    /\ setup.pc = "off"
    /\ setup.exit = "0"
    /\ backend = "none"
    /\ backend' = IF fs.venv THEN "started" ELSE "Virtual environment not found"
    /\ UNCHANGED <<pythonVersion, host, fs, setup, report>>
    /\ UNCHANGED NotScripts

NoReport == [ran |-> FALSE, python |-> "", ready |-> FALSE]

SetupOff ==
    [pc |-> "off", exit |-> "none", python |-> "unchecked", complete |-> FALSE]

ScriptsIdle ==
    /\ pythonVersion = <<RequiredMajor, RequiredMinor, 0>>
    /\ host = [uv |-> FALSE, uvOnDisk |-> FALSE, node |-> FALSE, npm |-> FALSE,
               env |-> FALSE]
    /\ fs = [venv |-> FALSE, backendVenv |-> FALSE, dotenv |-> FALSE,
             dotenvExample |-> FALSE, nodeModules |-> FALSE, pyDeps |-> FALSE]
    /\ setup = SetupOff
    /\ backend = "none"
    /\ report = NoReport

(***************************************************************************)
(* The log pages' forms: Seizures, Sickness, Health Events, Food Log and   *)
(* Medications.  Each page keeps showForm and one editing target in        *)
(* useState, and saves through a create and an update mutation.            *)
(***************************************************************************)
FormPages == {"Seizures", "Sickness", "HealthEvents", "FoodLog", "Medications"}

Tabs == {"single", "scheduled"}

EntryIds == 1..MaxEntries

Foods == 1..MaxFoods

\* A row of the list under a tab.  Single doses and schedules are numbered
\* by separate tables, so a row is its tab and its id.
RowOf(tab, id) == <<tab, id>>

\* JavaScript's a && b over 'true', 'false' and undefined.
JsAnd(a, b) == IF a \in {"false", "undefined"} THEN a ELSE b

\* JavaScript's !id for an id that is null or a positive number.
JsNot(id) == IF id = NULL THEN "true" ELSE "false"

InitialFormData == [save_to_database |-> "true"]

NoRequest ==
    [method |-> "none", resource |-> "single", id |-> NULL,
     food_database_id |-> NULL, save_to_database |-> "absent",
     by |-> "none", target |-> NULL]

\* The history of a form that is not rendered.
Hidden == [by |-> "none", target |-> NULL, gen |-> opened.gen]

Shown(by, target) == [by |-> by, target |-> target, gen |-> opened.gen + 1]

CanOpen == opened.gen < MaxOpens

\* The Edit button of a row of the list under the active tab.
handleEdit(id) ==
    /\ CanOpen
    /\ editingEntry' = Value(RowOf(activeTab, id))
    /\ entryForm' = IF logPage = "FoodLog"
                    THEN [save_to_database |-> "undefined"]
                    ELSE entryForm
    /\ showForm' = TRUE
    /\ opened' = Shown("edit", Value(RowOf(activeTab, id)))
    /\ UNCHANGED <<logPage, activeTab, selectedFoodId, showFoodDatabase, saves,
                   lastRequest>>
    /\ UNCHANGED NotForms

\* A header button that flips showForm and keeps the editing target, as
\* on the other pages.
ToggleEditingKept == editingEntry

\* What the header button leaves in the editing target.
ToggleEditing == IF logPage = "Medications" THEN NULL ELSE editingEntry

\* The header button, 'Add ...' or 'Cancel'.
ToggleForm ==
    /\ showForm \/ CanOpen
    /\ showForm' = ~showForm
    /\ editingEntry' = ToggleEditing
    /\ selectedFoodId' = IF logPage = "FoodLog" THEN NULL ELSE selectedFoodId
    /\ showFoodDatabase' = IF logPage = "FoodLog" THEN FALSE ELSE showFoodDatabase
    /\ opened' = IF showForm THEN Hidden ELSE Shown("add", NULL)
    /\ UNCHANGED <<logPage, activeTab, entryForm, saves, lastRequest>>
    /\ UNCHANGED NotForms

\* The form's Cancel button.
handleCancel ==
    /\ showForm
    /\ showForm' = FALSE
    /\ editingEntry' = NULL
    /\ selectedFoodId' = NULL
    /\ showFoodDatabase' = IF logPage = "FoodLog" THEN TRUE ELSE showFoodDatabase
    /\ entryForm' = InitialFormData
    /\ opened' = Hidden
    /\ UNCHANGED <<logPage, activeTab, saves, lastRequest>>
    /\ UNCHANGED NotForms

\* Food Log: a click on an item of the quick-add panel.
selectFoodFromDatabase(food) ==
    /\ logPage = "FoodLog"
    /\ ~showForm /\ showFoodDatabase
    /\ CanOpen
    /\ selectedFoodId' = Value(food)
    /\ entryForm' = [save_to_database |-> "false"]
    /\ showForm' = TRUE
    /\ showFoodDatabase' = FALSE
    /\ opened' = Shown("food", NULL)
    /\ UNCHANGED <<logPage, activeTab, editingEntry, saves, lastRequest>>
    /\ UNCHANGED NotForms

\* Food Log: 'Show Food Database' and the panel's Hide button.
ToggleFoodDatabase ==
    /\ logPage = "FoodLog"
    /\ ~showForm
    /\ showFoodDatabase' = ~showFoodDatabase
    /\ UNCHANGED <<logPage, activeTab, showForm, editingEntry, selectedFoodId,
                   entryForm, opened, saves, lastRequest>>
    /\ UNCHANGED NotForms

\* Medications: a click on a tab.
SelectTab(tab) ==
    /\ logPage = "Medications"
    /\ activeTab' = tab
    /\ showForm' = FALSE
    /\ opened' = Hidden
    /\ UNCHANGED <<logPage, editingEntry, selectedFoodId, showFoodDatabase,
                   entryForm, saves, lastRequest>>
    /\ UNCHANGED NotForms

\* The saves of one tab's form that are in flight.
SavesOf(tab) == {r \in DOMAIN saves : r.resource = tab}

\* The submit button's disabled attribute: Food Log and Medications read
\* isLoading, which a v5 mutation result does not have.
SubmitDisabled ==
    /\ logPage \in {"FoodLog", "Medications"}
    /\ ~rqV5
    /\ SavesOf(activeTab) # {}

\* save_to_database taken from the form alone, inverted.
SaveToDatabaseInverted(data, food) ==
    IF data.save_to_database = "true" THEN "false" ELSE "true"

\* save_to_database of a create request of the Food Log.
SaveToDatabase(data, food) == JsAnd(data.save_to_database, JsNot(food))

\* The request handleSubmit (handleScheduleSubmit under the scheduled tab)
\* builds from the component's state.
SubmitRequest ==
    IF editingEntry # NULL
    THEN [method |-> "update", resource |-> activeTab, id |-> editingEntry,
          food_database_id |-> NULL, save_to_database |-> "absent",
          by |-> opened.by, target |-> opened.target]
    ELSE [method |-> "create", resource |-> activeTab, id |-> NULL,
          food_database_id |-> IF logPage = "FoodLog" THEN selectedFoodId
                               ELSE NULL,
          save_to_database |-> IF logPage = "FoodLog"
                               THEN SaveToDatabase(entryForm, selectedFoodId)
                               ELSE "absent",
          by |-> opened.by, target |-> opened.target]

InFlight(request) ==
    [method |-> request.method, resource |-> request.resource,
     target |-> editingEntry, gen |-> opened.gen]

handleFormSubmit ==
    /\ showForm
    /\ ~SubmitDisabled
    /\ Count(saves, DOMAIN saves) < MaxPending
    /\ lastRequest' = SubmitRequest
    /\ saves' = Add(saves, InFlight(SubmitRequest))
    /\ UNCHANGED <<logPage, activeTab, showForm, editingEntry, selectedFoodId,
                   showFoodDatabase, entryForm, opened>>
    /\ UNCHANGED NotForms

\* onSuccess of the mutation that sent r.
MutationSucceeds(r) ==
    /\ Holds(saves, r)
    /\ saves' = Remove(saves, r)
    /\ showForm' = FALSE
    /\ editingEntry' = IF logPage = "Medications" \/ r.method = "update"
                       THEN NULL
                       ELSE editingEntry
    /\ selectedFoodId' = IF logPage = "FoodLog" THEN NULL ELSE selectedFoodId
    /\ entryForm' = InitialFormData
    /\ opened' = Hidden
    /\ UNCHANGED <<logPage, activeTab, showFoodDatabase, lastRequest>>
    /\ UNCHANGED NotForms

\* The mutations have no onError: a rejected save changes nothing.
MutationRejected(r) ==
    /\ Holds(saves, r)
    /\ saves' = Remove(saves, r)
    /\ UNCHANGED <<logPage, activeTab, showForm, editingEntry, selectedFoodId,
                   showFoodDatabase, entryForm, opened, lastRequest>>
    /\ UNCHANGED NotForms

FormsInit ==
    /\ activeTab = "single"
    /\ showForm = FALSE
    /\ editingEntry = NULL
    /\ selectedFoodId = NULL
    /\ showFoodDatabase = TRUE
    /\ entryForm = InitialFormData
    /\ opened = [by |-> "none", target |-> NULL, gen |-> 0]
    /\ saves = EmptyBag
    /\ lastRequest = NoRequest

FormsIdle == logPage = "Seizures" /\ FormsInit

(***************************************************************************)
(* The day buttons of the Food Log and Medications pages.  selectedDate is *)
(* a 'yyyy-MM-dd' string, here the number of its day; an instant is a      *)
(* number of hours since the UTC midnight that begins day 0.               *)
(***************************************************************************)
CalendarPages == {"FoodLog", "Medications"}

Days == 1..MaxDay

\* Whole hours east (positive) or west (negative) of UTC, no DST change.
Timezones == (0 - MaxOffset)..MaxOffset

\* new Date('yyyy-MM-dd'): a date-only string is read as UTC midnight.
ParseDate(d) == d * 24

\* date-fns addDays and subDays: the same local time of day, n days away.
addDays(t, n) == t + 24 * n

subDays(t, n) == addDays(t, 0 - n)

\* date-fns format(t, 'yyyy-MM-dd'): the day of t on the local calendar.
format(t) == (t + timezone) \div 24

NextDayOf(d) == format(addDays(ParseDate(d), 1))

PreviousDayOf(d) == format(subDays(ParseDate(d), 1))

\* The last two clicks on the day buttons.
Trail(click) ==
    IF navTrail = <<>> THEN <<click>> ELSE <<navTrail[Len(navTrail)], click>>

goToNextDay ==
    /\ NextDayOf(selectedDate) \in Days
    /\ selectedDate' = NextDayOf(selectedDate)
    /\ navTrail' = Trail([op |-> "next", from |-> selectedDate,
                          to |-> NextDayOf(selectedDate)])
    /\ UNCHANGED <<calendarPage, timezone>>
    /\ UNCHANGED NotDates

goToPreviousDay ==
    /\ PreviousDayOf(selectedDate) \in Days
    /\ selectedDate' = PreviousDayOf(selectedDate)
    /\ navTrail' = Trail([op |-> "previous", from |-> selectedDate,
                          to |-> PreviousDayOf(selectedDate)])
    /\ UNCHANGED <<calendarPage, timezone>>
    /\ UNCHANGED NotDates

\* The Today button: format(new Date(), 'yyyy-MM-dd') at some instant.
goToToday ==
    /\ \E now \in {ParseDate(d) + h : d \in Days, h \in {0, 12}} :
          /\ format(now) \in Days
          /\ selectedDate' = format(now)
    /\ navTrail' = <<>>
    /\ UNCHANGED <<calendarPage, timezone>>
    /\ UNCHANGED NotDates

\* The date input's onChange.
PickDate(d) ==
    /\ selectedDate' = d
    /\ navTrail' = <<>>
    /\ UNCHANGED <<calendarPage, timezone>>
    /\ UNCHANGED NotDates

DatesIdle ==
    /\ calendarPage = "FoodLog"
    /\ timezone = 0
    /\ selectedDate = 1
    /\ navTrail = <<>>

ExtraIdle == ScriptsIdle /\ FormsIdle /\ DatesIdle

(***************************************************************************)
(* Specifications.                                                         *)
(***************************************************************************)
Init ==
    /\ UIInit /\ StoreInit
    /\ CrudIdle /\ SummaryIdle /\ MigrationIdle /\ SettingsIdle
    /\ ExtraIdle

\* The server's side alone: no page is in use.
InitStore ==
    /\ UIInit /\ rqV5 /\ StoreInit
    /\ CrudIdle /\ SummaryIdle /\ MigrationIdle /\ SettingsIdle
    /\ ExtraIdle

\* The log resources, one resource per behaviour.
InitCrud ==
    /\ UIInit /\ rqV5 /\ StoreInit
    /\ resource \in Resources
    /\ logs = {}
    /\ lastOp = [op |-> "none", id |-> NoDate, date |-> NoDate, val |-> "",
                 active |-> FALSE]
    /\ mutFailed = 0
    /\ mutAlerts = 0
    /\ SummaryIdle
    /\ MigrationIdle
    /\ SettingsIdle
    /\ ExtraIdle

\* The tables a summary can be asked over: up to MaxEntries logged entries,
\* each in one table and on one date, and a Garmin table that holds one row
\* per date at most.
InitSummary ==
    /\ UIInit /\ rqV5 /\ CrudIdle /\ SyncIdle
    /\ \E S \in SUBSET Dates : garminStore = {[date |-> d, val |-> 1] : d \in S}
    /\ \E I \in SUBSET (1..MaxEntries) :
          \E f \in [I -> SummaryResources \X Dates] :
              dayLogs = {[res |-> f[i][1], id |-> i, date |-> f[i][2]] : i \in I}
    /\ summary = NoSummary
    /\ MigrationIdle
    /\ SettingsIdle
    /\ ExtraIdle

\* Any food entry history of up to MaxRows entries, on either build.
InitMigration ==
    /\ UIInit /\ rqV5 /\ StoreInit /\ CrudIdle /\ SummaryIdle
    /\ icu \in BOOLEAN
    /\ \E k \in 0..MaxRows : \E rows \in [1..k -> FoodRows] :
          food_entries = [r \in {rows[i] : i \in 1..k} |->
                             Cardinality({i \in 1..k : rows[i] = r})]
    /\ food_database = {}
    /\ migrated = FALSE
    /\ SettingsIdle
    /\ ExtraIdle

\* The Settings page is opened over any stored profile, on either version
\* of react-query.
InitSettings ==
    /\ UIInit /\ StoreInit /\ CrudIdle /\ SummaryIdle /\ MigrationIdle /\ ExtraIdle
    /\ formData = [email |-> "", garmin_username |-> "", garmin_password |-> ""]
    /\ userFetch = TRUE
    /\ updates = EmptyBag
    /\ userRow \in [email : Emails, garmin_username : Usernames,
                     garmin_password : Stored]
    /\ lastSave = [outcome |-> "none", omitted |-> FALSE, stored |-> ""]

\* The UI's side of the Garmin sync.
Next ==
    \/ \E p \in Pages : Navigate(p)
    \/ handleSync
    \/ \E d \in Dates : SetSyncDate(d)
    \/ SetSyncForce
    \/ handleManualSync
    \/ \E k \in ReqKinds : SyncResolves(k)
    \/ \E k \in ReqKinds : SyncRejects(k)
    \/ \E k \in ReqKinds : RefetchDone(k)
    \/ MessageTimeout
    \/ JobStart
    \/ JobEnd

Spec == Init /\ [][Next]_vars

\* The server's side of the Garmin sync.
NextStore ==
    \/ \E d \in Dates \cup {NoDate}, f \in BOOLEAN : CallSync(d, f)
    \/ \E k \in CallKinds, v \in Vals : ServeSync(k, v)
    \/ \E k \in CallKinds : ServeSyncFails(k)
    \/ \E v \in Vals : JobSync(v)

SpecStore == InitStore /\ [][NextStore]_vars

NextCrud ==
    \/ \E d \in Dates, v \in Payloads, a \in BOOLEAN : CreateEntry(d, v, a)
    \/ \E id \in 1..MaxEntries, d \in Dates \cup {NoDate}, v \in Payloads, a \in BOOLEAN :
          UpdateEntry(id, d, v, a)
    \/ \E id \in 1..MaxEntries : DeleteEntry(id)
    \/ \E pg \in LogPages, op \in MutationOps : MutationFails(pg, op)

SpecCrud == InitCrud /\ [][NextCrud]_vars

NextSummary ==
    \/ \E d \in Dates : getDailySummary(d)
    \/ getTodaySummary

SpecSummary == InitSummary /\ [][NextSummary]_vars

NextMigration == MigrateFoodEntries

SpecMigration == InitMigration /\ [][NextMigration]_vars

NextSettings ==
    \/ \E v \in Emails : TypeField("email", v)
    \/ \E v \in Usernames : TypeField("garmin_username", v)
    \/ \E v \in Typed : TypeField("garmin_password", v)
    \/ QueryUserDone
    \/ handleSubmit
    \/ \E k \in DOMAIN updates : SaveSucceeds(k)
    \/ \E k \in DOMAIN updates : SaveFails(k)

SpecSettings == InitSettings /\ [][NextSettings]_vars

\* check_system.sh and setup.sh's Python check on any machine.
InitCheck ==
    /\ UIInit /\ rqV5 /\ StoreInit
    /\ CrudIdle /\ SummaryIdle /\ MigrationIdle /\ SettingsIdle
    /\ FormsIdle /\ DatesIdle
    /\ pythonVersion \in PythonVersions
    /\ host \in [uv : BOOLEAN, uvOnDisk : {FALSE}, node : BOOLEAN, npm : {FALSE},
                  env : {FALSE}]
    /\ fs = [venv |-> FALSE, backendVenv |-> FALSE, dotenv |-> FALSE,
             dotenvExample |-> FALSE, nodeModules |-> FALSE, pyDeps |-> FALSE]
    /\ setup = SetupOff
    /\ backend = "none"
    /\ report = NoReport

NextCheck == CheckSystem \/ SetupPythonVerdict

SpecCheck == InitCheck /\ [][NextCheck]_vars

\* setup.sh and run_backend.sh on any machine and any checkout.
InitSetup ==
    /\ UIInit /\ rqV5 /\ StoreInit
    /\ CrudIdle /\ SummaryIdle /\ MigrationIdle /\ SettingsIdle
    /\ FormsIdle /\ DatesIdle
    /\ pythonVersion \in {<<RequiredMajor, RequiredMinor - 1, 0>>,
                          <<RequiredMajor, RequiredMinor, 0>>}
    /\ \E uv, npm, env \in BOOLEAN :
          host = [uv |-> uv, uvOnDisk |-> uv, node |-> npm, npm |-> npm,
                  env |-> env]
    /\ fs \in [venv : BOOLEAN, backendVenv : BOOLEAN, dotenv : BOOLEAN,
                dotenvExample : BOOLEAN, nodeModules : BOOLEAN, pyDeps : {FALSE}]
    /\ setup = SetupOff
    /\ backend = "none"
    /\ report = NoReport

NextSetup ==
    \/ StartSetup
    \/ SetupUv
    \/ RestartShell
    \/ SetupPython
    \/ SetupRemoveVenvs
    \/ SetupPipInstall
    \/ SetupDotenv
    \/ SetupNpm
    \/ RunBackend

SpecSetup == InitSetup /\ [][NextSetup]_vars

\* One log page, its form and its saves.
InitForms ==
    /\ UIInit /\ StoreInit
    /\ CrudIdle /\ SummaryIdle /\ MigrationIdle /\ SettingsIdle
    /\ ScriptsIdle /\ DatesIdle
    /\ logPage \in FormPages
    /\ FormsInit

NextForms ==
    \/ \E id \in EntryIds : handleEdit(id)
    \/ ToggleForm
    \/ handleCancel
    \/ \E food \in Foods : selectFoodFromDatabase(food)
    \/ ToggleFoodDatabase
    \/ \E tab \in Tabs : SelectTab(tab)
    \/ handleFormSubmit
    \/ \E r \in DOMAIN saves : MutationSucceeds(r)
    \/ \E r \in DOMAIN saves : MutationRejected(r)

SpecForms == InitForms /\ [][NextForms]_vars

\* The day buttons in one browser.
InitDates ==
    /\ UIInit /\ rqV5 /\ StoreInit
    /\ CrudIdle /\ SummaryIdle /\ MigrationIdle /\ SettingsIdle
    /\ ScriptsIdle /\ FormsIdle
    /\ calendarPage \in CalendarPages
    /\ timezone \in Timezones
    /\ selectedDate \in Days
    /\ navTrail = <<>>

NextDates ==
    \/ goToNextDay
    \/ goToPreviousDay
    \/ goToToday
    \/ \E d \in Days : PickDate(d)

SpecDates == InitDates /\ [][NextDates]_vars

(***************************************************************************)
(* C1..C3: the sync upsert.                                                *)
(***************************************************************************)

\* C1: with force=false, a sync of a date that directly follows a completed
\* sync of the same date (both asked without force) leaves the store as the
\* first one left it, whatever Garmin Connect returns the second time.
C1_SyncIdempotent ==
    [][(lastSync'.tick # lastSync.tick /\ lastSync'.repeat)
          => garminStore' = garminStore]_vars

\* The second of two unforced syncs of a date has completed, Garmin Connect
\* returned another aggregate for it than the row holds.
C1_Witness ==
    /\ lastSync.repeat
    /\ \E r \in garminStore : r.date = lastSync.date /\ r.val # lastSync.val

\* C2: an unforced sync of D with a row for D present is skipped and leaves
\* the store unchanged; otherwise (no row, or force) the store afterwards
\* holds for D exactly the newly computed aggregate, other dates untouched.
C2_SkipOrOverwrite ==
    [][lastSync'.tick # lastSync.tick =>
          LET d == lastSync'.date IN
          IF ~lastSync'.force /\ HasRow(garminStore, d)
          THEN garminStore' = garminStore /\ lastSync'.outcome = "skipped"
          ELSE /\ RowsFor(garminStore', d) = {[date |-> d, val |-> lastSync'.val]}
               /\ lastSync'.outcome = "written"
               /\ \A e \in Dates \ {d} :
                     RowsFor(garminStore', e) = RowsFor(garminStore, e)]_vars

\* A forced sync has overwritten an existing row.
C2_Witness ==
    /\ lastSync.force
    /\ lastSync.existed
    /\ lastSync.outcome = "written"
    /\ [date |-> lastSync.date, val |-> lastSync.val] \in garminStore

\* C3: the store holds at most one row per calendar date.
C3_OneRowPerDate ==
    \A r1, r2 \in garminStore : r1.date = r2.date => r1 = r2

\* A sync has written over a date that had a row, and the store holds
\* rows of several dates.
C3_Witness ==
    /\ lastSync.outcome = "written"
    /\ lastSync.existed
    /\ Cardinality(garminStore) >= 2

(***************************************************************************)
(* C4, C6: the UI's sync requests.                                         *)
(***************************************************************************)

\* C4: every failed sync request is reported to the user, and the UI sends
\* exactly one sync request per click.
C4_FailureReportedNoRetry ==
    /\ failed = reported
    /\ sent = clicks

\* C6 as claimed: at most one sync (a UI request, the scheduled run) is in
\* progress at any time.
C6_NeverOverlap == SyncsInProgress <= 1

\* C6 as amended: at most one handleSync of the mounted Dashboard is
\* running (its request in flight or its refetch awaited).
C6_MountedDashboardSyncsNeverOverlap ==
    Count(inflight, {k \in ReqKinds : k.src = "dashboard" /\ k.live}) <= 1

\* The mounted Dashboard has a sync in flight while a sync it started
\* before it was last unmounted is still in flight.
C6_Witness ==
    /\ page = "dashboard"
    /\ \E k \in ReqKinds :
          /\ k.src = "dashboard" /\ k.live /\ k.phase = "sync"
          /\ Holds(inflight, k)
          /\ Holds(inflight, [k EXCEPT !.live = FALSE])

(***************************************************************************)
(* C5, C7: the log resources.                                              *)
(***************************************************************************)

\* C5: every failed create, update or delete request of the Food Log,
\* Medications, Seizures, Sickness and Health Events pages raises an alert.
C5_EveryFailureAlerted == mutAlerts = mutFailed

\* The entry the last create or update wrote.
Written == [id |-> lastOp.id, date |-> lastOp.date, val |-> lastOp.val,
            active |-> lastOp.active]

RoundTrip ==
    /\ (lastOp.op \in {"create", "update"} /\ resource \in RangeResources) =>
          \A s, e \in Dates :
              (s <= lastOp.date /\ lastOp.date <= e) =>
                  GetById(ListRange(logs, getEntries(s, e)), lastOp.id) = {Written}
    /\ (lastOp.op \in {"create", "update"} /\ resource = "schedules") =>
          /\ GetById(logs, lastOp.id) = {Written}
          /\ Written \in ListSchedules(logs, getMedicationSchedules(FALSE))
          /\ Written \in ListSchedules(logs, getMedicationSchedules(TRUE))
                <=> lastOp.active
    /\ lastOp.op = "delete" =>
          /\ GetById(logs, lastOp.id) = {}
          /\ \A s, e \in Dates :
                GetById(ListRange(logs, getEntries(s, e)), lastOp.id) = {}
          /\ \A f \in BOOLEAN :
                GetById(ListSchedules(logs, getMedicationSchedules(f)), lastOp.id) = {}

C8_SummaryOfDay ==
    summary # NoSummary =>
        LET D == summary.date
            InDay(res) == {x \in dayLogs : x.res = res /\ x.date = D}
        IN /\ summary.food_entries = InDay("food")
           /\ summary.medication_count = Cardinality(InDay("medications"))
           /\ summary.water = InDay("water")
           /\ summary.seizures = InDay("seizures")
           /\ summary.activities = InDay("activities")
           /\ summary.garmin_data = {r \in garminStore : r.date = D}
           /\ Cardinality(summary.garmin_data) <= 1

\* A summary of a day with entries and a Garmin row, asked while another
\* day has entries and a row too.
C8_Witness ==
    /\ summary # NoSummary
    /\ summary.food_entries # {}
    /\ summary.garmin_data # {}
    /\ \E x \in dayLogs : x.res = "food" /\ x.date # summary.date
    /\ \E r \in garminStore : r.date # summary.date

(***************************************************************************)
(* C9: the food database migration.                                        *)
(***************************************************************************)

\* Two descriptions that differ in case only.
SameIgnoringCase(X, Y) ==
    /\ X # NULL /\ Y # NULL
    /\ \A x \in X, y \in Y :
          /\ Len(x) = Len(y)
          /\ \A i \in 1..Len(x) : LowerCase[x[i]] = LowerCase[y[i]]

\* The entries a catalog row stands for: same user, same description up to
\* case, same nutritional columns.
EntriesOf(c) ==
    {r \in DOMAIN food_entries :
        /\ r.user_id = c.user_id
        /\ SameIgnoringCase(r.description, c.name)
        /\ r.n = c.n}

\* C9: after the migration the catalog holds exactly one row per group
\* (user, case-insensitive description, nutritional columns) of food entries
\* with a non-empty description, with times_logged the size of the group,
\* and no row for an empty or NULL description.
C9_DeduplicatedCatalog ==
    migrated =>
        /\ \A r \in DOMAIN food_entries :
              Having(r) =>
                  Cardinality({c \in food_database : r \in EntriesOf(c)}) = 1
        /\ \A c \in food_database :
              /\ c.name # NULL /\ c.name # Value(<<>>)
              /\ c.times_logged = Count(food_entries, EntriesOf(c))
              /\ c.times_logged > 0

(***************************************************************************)
(* C10: saving Settings with the password field left blank.                *)
(***************************************************************************)

\* C10: an update request sent while the password field is empty carries no
\* garmin_password, whatever the other fields hold, and carries those as
\* they are; and after every successful save the password field is empty.
C10_BlankPasswordKept ==
    [][/\ \A k \in DOMAIN updates' :
            /\ k.form.garmin_password = "" => "garmin_password" \notin DOMAIN k.data
            /\ k.data.email = k.form.email
            /\ k.data.garmin_username = k.form.garmin_username
       /\ (Count(updates', DOMAIN updates') < Count(updates, DOMAIN updates)
             /\ lastSave'.outcome = "saved") =>
            formData'.garmin_password = ""
      ]_vars

\* A save with the password field blank and the other fields filled, over a
\* stored password, has succeeded.
C10_Witness ==
    /\ lastSave.outcome = "saved"
    /\ lastSave.omitted
    /\ lastSave.stored # ""
    /\ userRow.garmin_password = lastSave.stored
    /\ userRow.email # ""
    /\ userRow.garmin_username # ""
    /\ formData.garmin_password = ""

(***************************************************************************)
(* C13: check_system.sh's Python verdict.                                  *)
(***************************************************************************)

\* The version is 3.10 or higher.
AtLeastRequired(v) ==
    v[1] > RequiredMajor \/ (v[1] = RequiredMajor /\ v[2] >= RequiredMinor)

\* C13: check_system.sh reports Python as compatible exactly for the
\* versions 3.10 and higher, reports the system ready exactly when uv and
\* Node.js are there too, and its verdict is setup.sh's for every version.
C13_CheckAgreesWithSetup ==
    /\ report.ran =>
          /\ report.python = "compatible" <=> AtLeastRequired(pythonVersion)
          /\ report.ready <=>
                (host.uv /\ host.node /\ AtLeastRequired(pythonVersion))
    /\ (report.ran /\ setup.python # "unchecked") => report.python = setup.python

(***************************************************************************)
(* C11, C12: setup.sh and run_backend.sh.                                  *)
(***************************************************************************)

\* C11: run after setup.sh has run to "Setup complete!", run_backend.sh
\* finds .venv and starts the server; it does not exit with 'Virtual
\* environment not found'.
C11_BackendStartsAfterSetup ==
    (setup.complete /\ backend # "none") => backend = "started"

\* C12: whenever setup.sh has exited with status 0, uv is installed, the
\* Python and Node.js dependencies are installed and backend/.env exists.
C12_ExitZeroMeansSetUp ==
    setup.exit = "0" =>
        /\ host.uv \/ host.uvOnDisk
        /\ fs.pyDeps
        /\ fs.nodeModules
        /\ fs.dotenv

(***************************************************************************)
(* C14: which request a submit of the visible form issues.                 *)
(***************************************************************************)
\* C14: on the Seizures, Sickness, Health Events and Food Log pages a
\* submit issues an update for an entry only if the form was opened by
\* that entry's Edit button since it was last hidden, and a form opened by
\* the Add button or by a food of the food database issues a create.
C14_UpdateOnlyAfterEdit ==
    (logPage # "Medications" /\ lastRequest.method # "none") =>
        /\ lastRequest.method = "update" =>
              /\ lastRequest.by = "edit"
              /\ lastRequest.target = lastRequest.id
        /\ lastRequest.by \in {"add", "food"} => lastRequest.method = "create"

(***************************************************************************)
(* C15: the day buttons.                                                   *)
(***************************************************************************)
\* C15: in every browser timezone 'Next day' shows the day after the
\* selected one and 'Previous day' the day before it, and one button
\* followed by the other shows the date the two clicks began at.
C15_DayButtons ==
    /\ \A i \in DOMAIN navTrail :
          /\ navTrail[i].op = "next" => navTrail[i].to = navTrail[i].from + 1
          /\ navTrail[i].op = "previous" =>
                navTrail[i].to = navTrail[i].from - 1
    /\ (Len(navTrail) = 2 /\ navTrail[1].op # navTrail[2].op) =>
          navTrail[2].to = navTrail[1].from

(***************************************************************************)
(* C16: a save that completes after the form was opened again.             *)
(***************************************************************************)
\* The form rendered now was opened after save r was submitted, for another
\* entry or under the other tab.
NewerForm(r) ==
    /\ showForm
    /\ opened.gen # r.gen
    /\ editingEntry # r.target \/ activeTab # r.resource

\* C16: the success of a pending save resets only the form it was
\* submitted from: a form the user opened since, for another entry or
\* under the other Medications tab, stays rendered and keeps its editing
\* target.
C16_SuccessLeavesNewerForm ==
    [][\A r \in DOMAIN saves :
          (MutationSucceeds(r) /\ NewerForm(r)) =>
              (showForm' /\ editingEntry' = editingEntry)]_vars

(***************************************************************************)
(* C17: the Medications page's shared editing target.                      *)
(***************************************************************************)
\* The tab of the list a row was taken from.
TabOf(target) == (CHOOSE row \in target : TRUE)[1]

\* C17: on the Medications page an update of a schedule is sent with the
\* id of a schedule and an update of a single dose with the id of a single
\* dose, and a rendered form never holds an editing target taken from the
\* other tab's list.
C17_UpdateIdOfItsTab ==
    logPage = "Medications" =>
        /\ lastRequest.method = "update" =>
              TabOf(lastRequest.id) = lastRequest.resource
        /\ (showForm /\ editingEntry # NULL) => TabOf(editingEntry) = activeTab

\* A schedule was updated, and the target left by an Edit on a single dose
\* is still held under the Scheduled tab.
C17_Witness ==
    /\ logPage = "Medications"
    /\ lastRequest.method = "update"
    /\ lastRequest.resource = "scheduled"
    /\ activeTab = "scheduled"
    /\ editingEntry # NULL
    /\ TabOf(editingEntry) = "single"

(***************************************************************************)
(* C18, C19: save_to_database of the Food Log's create requests.           *)
(***************************************************************************)
\* C18: every create request of the Food Log whose food_database_id is
\* null carries save_to_database = true.
C18_TypedEntriesAreSaved ==
    (/\ logPage = "FoodLog"
     /\ lastRequest.method = "create"
     /\ lastRequest.food_database_id = NULL) =>
        lastRequest.save_to_database = "true"

\* C19: every create request of the Food Log whose food_database_id is
\* not null carries save_to_database = false.
C19_SelectedFoodsAreNotSaved ==
    (/\ logPage = "FoodLog"
     /\ lastRequest.method = "create"
     /\ lastRequest.food_database_id # NULL) =>
        lastRequest.save_to_database = "false"

\* A create request was issued from a form filled from the food database,
\* and not from the first form the page rendered.
C19_Witness ==
    /\ logPage = "FoodLog"
    /\ lastRequest.method = "create"
    /\ lastRequest.food_database_id # NULL
    /\ lastRequest.by = "food"
    /\ opened.gen > 1

====
